---- MODULE Spec2Model ----
(***************************************************************************)
(* Shape-level model of hybrid/models/hybrid_res_unet_bp.py: the hybrid    *)
(* Res-UNet whose contracting path is 3D and whose expanding path is 2D.   *)
(* A tensor is modelled by its size (a sequence of dimensions) and, for    *)
(* 3D feature maps, by the receptive window of its depth axis in input     *)
(* coordinates.  Every layer is modelled by the shape arithmetic of the    *)
(* torch layer it constructs, including the errors torch raises.           *)
(***************************************************************************)
EXTENDS Integers, Sequences, FiniteSets, TLC

----------------------------------------------------------------------------
(* Bounds of the explored inputs *)

MaxDepth == 33
MaxSize == 16
MaxBlockSize == 5

----------------------------------------------------------------------------
(* Tensors *)

\* an absent submodule (downsample=None)
None == [kind |-> "None"]

IsNone(m) == m.kind = "None"

\* a failed operation: the site of the error torch raises there
Err(site) == [err |-> site, size |-> <<>>, rf |-> <<>>]

\* a tensor of the given size; rf = <<jump, lo, hi>> says that index j of the
\* depth axis sees the input slices jump*j + lo .. jump*j + hi (<<>> for 2D)
Tensor(size, rf) == [err |-> "", size |-> size, rf |-> rf]

IsErr(t) == t.err # ""

\* a local that is not assigned yet
Unset == [err |-> "", size |-> <<>>, rf |-> <<>>]

Min(a, b) == IF a <= b THEN a ELSE b
Max(a, b) == IF a >= b THEN a ELSE b

\* torch.FloatTensor(batch, in_channels, D, H, W): the input volume
InputTensor(batch, channels, D, H, W) ==
    Tensor(<<batch, channels, D, H, W>>, <<1, 0, 0>>)

----------------------------------------------------------------------------
(* Layers: constructors and forward shape arithmetic *)

\* variant: the output length without the final + 1
ConvOut_OffByOne(n, k, s, p) == (n + 2 * p - k) \div s

\* output length of a convolution along one axis
ConvOut(n, k, s, p) == ((n + 2 * p - k) \div s) + 1

\* variant: a transposed convolution that keeps the length
ConvTransposeOut_Same(n, k, s, p) == n

\* output length of a transposed convolution along one axis
ConvTransposeOut(n, k, s, p) == (n - 1) * s - 2 * p + k

\* nn.Conv3d / nn.Conv2d; kernel_size, stride are ints, padding a tuple
ConvLayer(in_channels, out_channels, kernel_size, stride, padding) ==
    [in_channels |-> in_channels, out_channels |-> out_channels,
     kernel_size |-> kernel_size, stride |-> stride, padding |-> padding]

\* an int padding is the same padding on every axis
Pad3(padding) == <<padding, padding, padding>>
Pad2(padding) == <<padding, padding>>

conv_333(in_channels, out_channels, stride, padding) ==
    ConvLayer(in_channels, out_channels, 3, stride, padding)

conv_33(in_channels, out_channels, stride) ==
    ConvLayer(in_channels, out_channels, 3, stride, Pad2(1))

\* receptive window of the depth axis after a convolution along it
ConvRf(rf, k, s, p) ==
    <<rf[1] * s, rf[2] - rf[1] * p, rf[3] + rf[1] * (k - 1 - p)>>

\* forward of a convolution: the channel check, the kernel-size check, and
\* the output size of every spatial axis
ConvForward(layer, x) ==
    IF IsErr(x) THEN x
    ELSE IF x.size[2] # layer.in_channels THEN Err("conv.channels")
    ELSE LET n == Len(x.size) - 2
             k == layer.kernel_size
             s == layer.stride
         IN IF \E a \in 1..n : x.size[a + 2] + 2 * layer.padding[a] < k
            THEN Err("conv.kernel")
            ELSE Tensor(
                   [a \in 1..(n + 2) |->
                      IF a = 1 THEN x.size[1]
                      ELSE IF a = 2 THEN layer.out_channels
                      ELSE ConvOut(x.size[a], k, s, layer.padding[a - 2])],
                   IF n = 3 THEN ConvRf(x.rf, k, s, layer.padding[1]) ELSE <<>>)

\* nn.BatchNorm3d / nn.BatchNorm2d (num_features); a module is constructed
\* in training mode
BatchNormLayer(num_features) ==
    [num_features |-> num_features, training |-> TRUE]

\* the number of values per channel: the batch size times the spatial sizes
ValuesPerChannel(size) ==
    IF Len(size) = 5 THEN size[1] * size[3] * size[4] * size[5]
    ELSE size[1] * size[3] * size[4]

\* forward of a batch normalization: shape-preserving; the channel count must
\* be num_features and, in training mode, there must be more than one value
\* per channel
BatchNorm(bn, x) ==
    IF IsErr(x) THEN x
    ELSE IF x.size[2] # bn.num_features THEN Err("bn.channels")
    ELSE IF bn.training /\ ValuesPerChannel(x.size) = 1 THEN Err("bn.batch")
    ELSE x

\* out += residual: in place, so the residual must have the size of out, or
\* size 1 on the axes where it differs (broadcasting)
AddResidual(out, residual) ==
    IF IsErr(out) THEN out
    ELSE IF IsErr(residual) THEN residual
    ELSE IF \/ Len(out.size) # Len(residual.size)
            \/ \E a \in 1..Len(out.size) :
                  residual.size[a] # out.size[a] /\ residual.size[a] # 1
    THEN Err("add")
    ELSE Tensor(out.size,
                IF out.rf = <<>> THEN <<>>
                ELSE <<out.rf[1], Min(out.rf[2], residual.rf[2]),
                       Max(out.rf[3], residual.rf[3])>>)

\* variant: padding 1 on every axis whatever the stride
ResBlock3D_DepthPadded(in_channels, out_channels, stride) ==
    [bn1 |-> BatchNormLayer(in_channels),
     conv1 |-> conv_333(in_channels, out_channels, stride, Pad3(1)),
     bn2 |-> BatchNormLayer(out_channels),
     conv2 |-> conv_333(out_channels, out_channels, 1, Pad3(1)),
     downsample |->
       IF stride # 1 \/ in_channels # out_channels
       THEN [kind |-> "Sequential",
             conv |-> ConvLayer(in_channels, out_channels, 3, stride, Pad3(1)),
             bn |-> BatchNormLayer(out_channels)]
       ELSE None]

\* ResBlock3D.__init__
ResBlock3D(in_channels, out_channels, stride) ==
    LET padding == IF stride = 1 THEN Pad3(1) ELSE <<0, 1, 1>>
    IN [bn1 |-> BatchNormLayer(in_channels),
        conv1 |-> conv_333(in_channels, out_channels, stride, padding),
        bn2 |-> BatchNormLayer(out_channels),
        conv2 |-> conv_333(out_channels, out_channels, 1, Pad3(1)),
        downsample |->
          IF stride # 1 \/ in_channels # out_channels
          THEN [kind |-> "Sequential",
                conv |-> ConvLayer(in_channels, out_channels, 3, stride, padding),
                bn |-> BatchNormLayer(out_channels)]
          ELSE None]

\* variant: the projection is an unpadded 3x3 convolution
ResBlock2D_Projection3(in_channels, out_channels, stride) ==
    [bn1 |-> BatchNormLayer(in_channels),
     conv1 |-> conv_33(in_channels, out_channels, stride),
     bn2 |-> BatchNormLayer(out_channels),
     conv2 |-> conv_33(out_channels, out_channels, 1),
     downsample |->
       IF stride # 1 \/ in_channels # out_channels
       THEN [kind |-> "Sequential",
             conv |-> ConvLayer(in_channels, out_channels, 3, stride, Pad2(0)),
             bn |-> BatchNormLayer(out_channels)]
       ELSE None]

\* ResBlock2D.__init__
ResBlock2D(in_channels, out_channels, stride) ==
    [bn1 |-> BatchNormLayer(in_channels),
     conv1 |-> conv_33(in_channels, out_channels, stride),
     bn2 |-> BatchNormLayer(out_channels),
     conv2 |-> conv_33(out_channels, out_channels, 1),
     downsample |->
       IF stride # 1 \/ in_channels # out_channels
       THEN [kind |-> "Sequential",
             conv |-> ConvLayer(in_channels, out_channels, 1, stride, Pad2(0)),
             bn |-> BatchNormLayer(out_channels)]
       ELSE None]

\* main path of ResBlock3D.forward / ResBlock2D.forward (bn, relu, conv1,
\* bn, relu, conv2, dropout): relu and dropout keep the shape
MainPath(block, x) ==
    ConvForward(block.conv2,
                BatchNorm(block.bn2,
                          ConvForward(block.conv1, BatchNorm(block.bn1, x))))

\* shortcut path: the identity, or the projection (conv, bn)
Shortcut(block, x) ==
    IF IsNone(block.downsample) THEN x
    ELSE BatchNorm(block.downsample.bn, ConvForward(block.downsample.conv, x))

\* ResBlock3D.forward / ResBlock2D.forward
ResBlockForward(block, x) ==
    IF IsErr(x) THEN x
    ELSE LET out == MainPath(block, x)
         IN IF IsErr(out) THEN out
            ELSE AddResidual(out, Shortcut(block, x))

\* variant: a transposed convolution of kernel size 3
UpConv_Kernel3(in_channels, out_channels) ==
    [transconv |-> ConvLayer(in_channels, out_channels, 3, 2, Pad2(0))]

\* UpConv.__init__: nn.ConvTranspose2d(in, out, kernel_size=2, stride=2, padding=0)
UpConv(in_channels, out_channels) ==
    [transconv |-> ConvLayer(in_channels, out_channels, 2, 2, Pad2(0))]

\* nn.ConvTranspose2d forward
TransConvForward(layer, x) ==
    IF IsErr(x) THEN x
    ELSE IF Len(x.size) # 4 THEN Err("transconv.rank")
    ELSE IF x.size[2] # layer.in_channels THEN Err("transconv.channels")
    ELSE Tensor(<<x.size[1], layer.out_channels,
                  ConvTransposeOut(x.size[3], layer.kernel_size, layer.stride,
                                   layer.padding[1]),
                  ConvTransposeOut(x.size[4], layer.kernel_size, layer.stride,
                                   layer.padding[2])>>, <<>>)

\* t[:, :, inx] of a 3D feature map: the depth axis is removed
SliceDepth(t, inx) ==
    IF IsErr(t) THEN t
    ELSE IF inx >= t.size[3] THEN Err("index")
    ELSE Tensor(<<t.size[1], t.size[2], t.size[4], t.size[5]>>, <<>>)

\* variant: a concatenation that crops both operands to the smaller one
TorchCat_Crop(a, b) ==
    IF IsErr(a) THEN a
    ELSE IF IsErr(b) THEN b
    ELSE Tensor(<<Min(a.size[1], b.size[1]), a.size[2] + b.size[2],
                  Min(a.size[3], b.size[3]), Min(a.size[4], b.size[4])>>, <<>>)

\* torch.cat([a, b], 1): every axis but the channel axis must agree
TorchCat(a, b) ==
    IF IsErr(a) THEN a
    ELSE IF IsErr(b) THEN b
    ELSE IF a.size[1] # b.size[1] \/ a.size[3] # b.size[3] \/ a.size[4] # b.size[4]
    THEN Err("cat")
    ELSE Tensor(<<a.size[1], a.size[2] + b.size[2], a.size[3], a.size[4]>>, <<>>)

\* variant: pop(0), the first item
Pop_First(list) ==
    [item |-> list[1], rest |-> SubSeq(list, 2, Len(list))]

\* list.pop(): the last item, and the list without it
Pop(list) ==
    [item |-> list[Len(list)], rest |-> SubSeq(list, 1, Len(list) - 1)]

\* UpConv.forward(skip, x)
UpConvForward(up, skip, x) ==
    LET central_inx == skip.size[3] \div 2
        skip_slice == SliceDepth(skip, central_inx)
        out == TransConvForward(up.transconv, x)
    IN TorchCat(skip_slice, out)

----------------------------------------------------------------------------
(* Network assembly *)

\* ResUNet.__init__
ResUNet(in_channels, out_channels, down_blocks, up_blocks, bottleneck) ==
    [training |-> TRUE,
     down_blocks |-> down_blocks,
     up_blocks |-> up_blocks,
     conv1 |-> ConvLayer(in_channels, down_blocks[1], 3, 1, Pad3(1)),
     BlocksDown |->
       [b \in 1..Len(down_blocks) |->
          IF b = 1 THEN ResBlock3D(down_blocks[1], down_blocks[b], 1)
          ELSE ResBlock3D(down_blocks[b - 1], down_blocks[b], 2)],
     bottleneck |-> ResBlock3D(down_blocks[Len(down_blocks)], bottleneck, 2),
     TransUpBlocks |->
       [b \in 1..Len(up_blocks) |->
          UpConv(IF b = 1 THEN bottleneck ELSE up_blocks[b - 1], up_blocks[b])],
     BlocksUp |->
       [b \in 1..Len(up_blocks) |->
          ResBlock2D(IF b = 1 THEN bottleneck ELSE up_blocks[b - 1], up_blocks[b], 1)],
     fl |-> ConvLayer(up_blocks[Len(up_blocks)], out_channels, 1, 1, Pad2(0))]

ResUNet28(in_channels, out_channels) ==
    ResUNet(in_channels, out_channels, <<32, 64, 128, 256, 512>>,
            <<512, 256, 128, 64, 32>>, 1024)

\* variant: the medium preset with the bottleneck width of the small one
ResUNet23_Bottleneck256(in_channels, out_channels) ==
    ResUNet(in_channels, out_channels, <<32, 64, 128, 256>>,
            <<256, 128, 64, 32>>, 256)

ResUNet23(in_channels, out_channels) ==
    ResUNet(in_channels, out_channels, <<32, 64, 128, 256>>,
            <<256, 128, 64, 32>>, 512)

ResUNet18(in_channels, out_channels) ==
    ResUNet(in_channels, out_channels, <<32, 64, 128>>, <<128, 64, 32>>, 256)

\* nn.Module.eval() on a residual block and on the network: every
\* submodule leaves training mode
EvalBlock(block) ==
    [block EXCEPT !.bn1.training = FALSE,
                  !.bn2.training = FALSE,
                  !.downsample =
                     IF IsNone(@) THEN @ ELSE [@ EXCEPT !.bn.training = FALSE]]

Eval(net) ==
    [net EXCEPT !.training = FALSE,
                !.BlocksDown = [b \in DOMAIN @ |-> EvalBlock(@[b])],
                !.bottleneck = EvalBlock(@),
                !.BlocksUp = [b \in DOMAIN @ |-> EvalBlock(@[b])]]

\* the three factories, by name
PresetNames == {"ResUNet18", "ResUNet23", "ResUNet28"}

Build(name, in_channels, out_channels) ==
    IF name = "ResUNet18" THEN ResUNet18(in_channels, out_channels)
    ELSE IF name = "ResUNet23" THEN ResUNet23(in_channels, out_channels)
    ELSE ResUNet28(in_channels, out_channels)

----------------------------------------------------------------------------
(* State *)

VARIABLES
    self,              \* the constructed module (a ResUNet, or a residual block)
    x,                 \* the argument of forward
    out,               \* the local `out` of forward
    residual,          \* the local `residual` of a residual block's forward
    skip_connections,  \* the local list of ResUNet.forward
    b_inx,             \* the index of the expanding stage
    pc,                \* the position in forward
    pushed,            \* history: every tensor appended to skip_connections
    fusions            \* history: per expanding stage, the popped skip, the 2D
                       \* tensor fed to the up-convolution and the fused tensor

vars == <<self, x, out, residual, skip_connections, b_inx, pc, pushed, fusions>>

\* the number of contracting stages
NStages == Len(self.down_blocks)

----------------------------------------------------------------------------
(* The inputs explored *)

\* the run of __main__: ResUNet18(1, 2) on torch.FloatTensor(6, 1, 15, 96, 96)
MainRun ==
    [preset |-> "ResUNet18", in_channels |-> 1, out_channels |-> 2,
     size |-> <<6, 1, 15, 96, 96>>]

\* the medium network (the defaults of ResUNet.__init__: 1 -> 5 channels) on
\* 64 x 64 patches of 15 and of 31 slices
MediumRuns ==
    {[preset |-> "ResUNet23", in_channels |-> 1, out_channels |-> 5,
      size |-> <<2, 1, D, 64, 64>>] : D \in {15, 31}}

\* the large network needs 63 slices to reach its bottleneck
LargeRuns ==
    {[preset |-> "ResUNet28", in_channels |-> 1, out_channels |-> 2,
      size |-> <<1, 1, D, H, W>>] :
        D \in {31, 62, 63, 65, 127}, H \in {16, 24, 32, 48, 64}, W \in {32, 48}}

\* every preset on every volume of the bounded sizes
BoundedRuns ==
    {[preset |-> p, in_channels |-> 1, out_channels |-> 2,
      size |-> <<1, 1, D, H, W>>] :
        p \in PresetNames, D \in 1..MaxDepth, H \in 1..MaxSize, W \in 1..MaxSize}

Runs == {MainRun} \cup MediumRuns \cup LargeRuns \cup BoundedRuns

----------------------------------------------------------------------------
(* ResUNet.forward, one action per step *)

Init ==
    \E r \in Runs, training \in BOOLEAN :
        /\ self = IF training
                  THEN Build(r.preset, r.in_channels, r.out_channels)
                  ELSE Eval(Build(r.preset, r.in_channels, r.out_channels))
        /\ x = InputTensor(r.size[1], r.size[2], r.size[3], r.size[4], r.size[5])
        /\ out = Unset
        /\ residual = Unset
        /\ skip_connections = <<>>
        /\ b_inx = 0
        /\ pc = "conv1"
        /\ pushed = <<>>
        /\ fusions = <<>>

\* out = self.conv1(x); skip_connections = []
Conv1 ==
    /\ pc = "conv1"
    /\ out' = ConvForward(self.conv1, x)
    /\ skip_connections' = <<>>
    /\ pc' = IF IsErr(out') THEN "error" ELSE "down"
    /\ UNCHANGED <<self, x, residual, b_inx, pushed, fusions>>

\* one iteration of `for down_block in self.BlocksDown`; the iterations done
\* so far are the tensors appended so far
DownBlock ==
    /\ pc = "down"
    /\ LET down_block == self.BlocksDown[Len(skip_connections) + 1]
           o == ResBlockForward(down_block, out)
       IN /\ out' = o
          /\ IF IsErr(o)
             THEN /\ pc' = "error"
                  /\ UNCHANGED <<skip_connections, pushed>>
             ELSE /\ skip_connections' = Append(skip_connections, o)
                  /\ pushed' = Append(pushed, o)
                  /\ pc' = IF Len(skip_connections') = Len(self.BlocksDown)
                           THEN "bottleneck" ELSE "down"
    /\ UNCHANGED <<self, x, residual, b_inx, fusions>>

\* out = self.bottleneck(out)
Bottleneck ==
    /\ pc = "bottleneck"
    /\ out' = ResBlockForward(self.bottleneck, out)
    /\ pc' = IF IsErr(out') THEN "error"
             ELSE IF Len(self.up_blocks) = 0 THEN "fl" ELSE "up"
    /\ b_inx' = 0
    /\ UNCHANGED <<self, x, residual, skip_connections, pushed, fusions>>

\* one iteration of `for b_inx in range(len(self.up_blocks))`
UpStage ==
    /\ pc = "up"
    /\ IF skip_connections = <<>>
       THEN \* pop from an empty list
            /\ out' = Err("pop")
            /\ pc' = "error"
            /\ UNCHANGED <<skip_connections, b_inx, fusions>>
       ELSE LET skip == Pop(skip_connections).item
                n_slices == out.size[3]
                fed == IF b_inx = 0 THEN SliceDepth(out, n_slices \div 2) ELSE out
                fused == UpConvForward(self.TransUpBlocks[b_inx + 1], skip, fed)
                o == ResBlockForward(self.BlocksUp[b_inx + 1], fused)
            IN /\ skip_connections' =
                    SubSeq(skip_connections, 1, Len(skip_connections) - 1)
               /\ fusions' = Append(fusions, [skip |-> skip, x |-> fed, fused |-> fused])
               /\ out' = o
               /\ IF IsErr(o)
                  THEN pc' = "error" /\ UNCHANGED b_inx
                  ELSE /\ b_inx' = b_inx + 1
                       /\ pc' = IF b_inx + 1 = Len(self.up_blocks) THEN "fl" ELSE "up"
    /\ UNCHANGED <<self, x, residual, pushed>>

\* output = self.fl(out); return output
FinalConv ==
    /\ pc = "fl"
    /\ out' = ConvForward(self.fl, out)
    /\ pc' = IF IsErr(out') THEN "error" ELSE "done"
    /\ UNCHANGED <<self, x, residual, skip_connections, b_inx, pushed, fusions>>

Next == Conv1 \/ DownBlock \/ Bottleneck \/ UpStage \/ FinalConv

Spec == Init /\ [][Next]_vars

----------------------------------------------------------------------------
(* A residual block on its own: ResBlock3D.forward / ResBlock2D.forward *)

\* the channel counts of the first two stages
BlockChannels == {32, 64}

InitBlock ==
    \E in_channels \in BlockChannels, out_channels \in BlockChannels,
       stride \in {1, 2}, training \in BOOLEAN, D \in 0..MaxBlockSize,
       H \in 1..MaxBlockSize, W \in 1..MaxBlockSize :
        /\ self = LET block == IF D = 0
                               THEN ResBlock2D(in_channels, out_channels, stride)
                               ELSE ResBlock3D(in_channels, out_channels, stride)
                  IN IF training THEN block ELSE EvalBlock(block)
        /\ x = IF D = 0 THEN Tensor(<<1, in_channels, H, W>>, <<>>)
               ELSE InputTensor(1, in_channels, D, H, W)
        /\ out = Unset
        /\ residual = Unset
        /\ skip_connections = <<>>
        /\ b_inx = 0
        /\ pc = "block"
        /\ pushed = <<>>
        /\ fusions = <<>>

\* residual = x; out = bn1, relu, conv1, bn2, relu, conv2, dp
BlockMain ==
    /\ pc = "block"
    /\ residual' = x
    /\ out' = MainPath(self, x)
    /\ pc' = IF IsErr(out') THEN "error" ELSE "block.downsample"
    /\ UNCHANGED <<self, x, skip_connections, b_inx, pushed, fusions>>

\* if self.downsample is not None: residual = self.downsample(residual)
BlockDownsample ==
    /\ pc = "block.downsample"
    /\ residual' = Shortcut(self, residual)
    /\ pc' = IF IsErr(residual') THEN "error" ELSE "block.add"
    /\ UNCHANGED <<self, x, out, skip_connections, b_inx, pushed, fusions>>

\* out += residual; return out
BlockAdd ==
    /\ pc = "block.add"
    /\ out' = AddResidual(out, residual)
    /\ pc' = IF IsErr(out') THEN "error" ELSE "done"
    /\ UNCHANGED <<self, x, residual, skip_connections, b_inx, pushed, fusions>>

NextBlock == BlockMain \/ BlockDownsample \/ BlockAdd

SpecBlock == InitBlock /\ [][NextBlock]_vars

----------------------------------------------------------------------------
(* Vocabulary of the properties *)

RECURSIVE Pow2(_)
Pow2(n) == IF n = 0 THEN 1 ELSE 2 * Pow2(n - 1)

InBatch == x.size[1]
InDepth == x.size[3]
InHeight == x.size[4]
InWidth == x.size[5]

Terminal == pc \in {"done", "error"}

Odd(n) == n % 2 = 1

\* height and width are both multiples of m
SpatialDivisible(m) == InHeight % m = 0 /\ InWidth % m = 0

\* the least depth that survives the stride-2 blocks of n contracting stages
\* and the bottleneck (each maps depth d >= 3 to (d - 3) \div 2 + 1)
MinDepth(n) == Pow2(n + 1) - 1

\* the contracting path and the bottleneck have run without error
ReachedExpanding ==
    pc \in {"up", "fl", "done"} \/ fusions # <<>> \/ out.err = "pop"

\* batch normalization accepts the smallest feature map of n stages: the
\* module is in eval mode, or batch * (H / 2^n) * (W / 2^n) > 1
EnoughValues(n) ==
    ~self.training \/ InBatch * InHeight * InWidth > Pow2(n) * Pow2(n)

\* the size forward is to return
ExpectedOut == <<InBatch, self.fl.out_channels, InHeight, InWidth>>

\* twice the centre, in input slices, of the receptive window of index j
Centre2(t, j) == 2 * t.rf[1] * j + t.rf[2] + t.rf[3]

IsRun(r) ==
    /\ self \in {Build(r.preset, r.in_channels, r.out_channels),
                 Eval(Build(r.preset, r.in_channels, r.out_channels))}
    /\ x.size = r.size

MediumRun(D) ==
    [preset |-> "ResUNet23", in_channels |-> 1, out_channels |-> 5,
     size |-> <<2, 1, D, 64, 64>>]

----------------------------------------------------------------------------
(* Properties *)

\* C1, as stated: for every preset (N stages) and every input with D odd and
\* H, W divisible by 2^(N-1), forward ends by returning a tensor of size
\* (batch, out_channels, H, W).
C1_AsStated ==
    (Terminal /\ Odd(InDepth) /\ SpatialDivisible(Pow2(NStages - 1)))
        => (pc = "done" /\ out.size = ExpectedOut)

\* C1, amended: for every preset (N stages) and every input with D odd,
\* D >= 2^(N+1) - 1, H, W divisible by 2^N and, when the module is in training
\* mode, batch * (H / 2^N) * (W / 2^N) > 1, no step of forward fails (no
\* stride-2 stage, up-convolution, concatenation or addition), and the
\* tensor returned has size (batch, out_channels, H, W).
C1_ForwardShape ==
    (/\ Odd(InDepth) /\ InDepth >= MinDepth(NStages)
     /\ SpatialDivisible(Pow2(NStages))
     /\ EnoughValues(NStages))
        => /\ pc # "error"
           /\ \A k \in 1..Len(fusions) : ~IsErr(fusions[k].fused)
           /\ pc = "done" => out.size = ExpectedOut

\* a large network returned on an input that meets the amended constraints
C1_Witness ==
    /\ pc = "done"
    /\ NStages = 5
    /\ self.training
    /\ Odd(InDepth) /\ InDepth >= MinDepth(NStages)
    /\ SpatialDivisible(Pow2(NStages))
    /\ out.size = ExpectedOut

\* C2, as stated: the medium preset (1 -> 5 channels) on an input of size
\* (2, 1, 15, 64, 64) ends by returning a tensor of size (2, 5, 64, 64).
C2_AsStated ==
    (Terminal /\ IsRun(MediumRun(15)))
        => (pc = "done" /\ out.size = <<2, 5, 64, 64>>)

\* C2, amended: on (2, 1, 15, 64, 64) the medium preset fails in the
\* bottleneck, whose input has depth 1, with the kernel-size error of its
\* first convolution; on (2, 1, 31, 64, 64) every stride-2 block receives
\* a depth of at least 3, no step fails and forward returns (2, 5, 64, 64).
C2_MediumScenario ==
    /\ (Terminal /\ IsRun(MediumRun(15)))
          => /\ pc = "error" /\ out.err = "conv.kernel"
             /\ Len(pushed) = 4 /\ pushed[4].size[3] = 1
             /\ fusions = <<>>
    /\ IsRun(MediumRun(31))
          => /\ pc # "error"
             /\ \A k \in 1..Len(pushed) : pushed[k].size[3] >= 3
             /\ pc = "done" => out.size = <<2, 5, 64, 64>>

\* the medium preset returned on the 31-slice input
C2_Witness ==
    /\ IsRun(MediumRun(31))
    /\ pc = "done"
    /\ out.size = <<2, 5, 64, 64>>

\* C3: the small preset (1 -> 2 channels) on an input of size
\* (6, 1, 15, 96, 96) returns a tensor of size (6, 2, 96, 96); the depth is
\* 15 after the first convolution and 15, 7, 3 after the contracting stages,
\* and 1 after the bottleneck.
C3_SmallScenario ==
    IsRun(MainRun)
        => /\ pc # "error"
           /\ pc = "down" /\ pushed = <<>> => out.size[3] = 15
           /\ \A k \in 1..Len(pushed) : pushed[k].size[3] = <<15, 7, 3>>[k]
           /\ pc = "up" /\ b_inx = 0 => out.size[3] = 1
           /\ pc = "done" => out.size = <<6, 2, 96, 96>>

\* the run of __main__ returned
C3_Witness ==
    /\ IsRun(MainRun)
    /\ pc = "done"
    /\ Len(pushed) = 3

\* C4: for every preset (N stages) and every input on which the contracting
\* path and the bottleneck complete, if H or W is not divisible by 2^(N-1)
\* then forward never returns: it ends in the error of torch.cat in an UpConv
\* fusion step, whose operands disagree in height or width.  In eval mode
\* the contracting path and the bottleneck complete whenever
\* D >= 2^(N+1) - 1.
C4_MismatchAtFusion ==
    ~SpatialDivisible(Pow2(NStages - 1))
        => /\ pc \notin {"fl", "done"}
           /\ (pc = "error" /\ InDepth >= MinDepth(NStages) /\ ~self.training)
                 => ReachedExpanding
           /\ (pc = "error" /\ ReachedExpanding) =>
                /\ out.err = "cat"
                /\ fusions # <<>>
                /\ LET f == fusions[Len(fusions)]
                   IN /\ f.fused.err = "cat"
                      /\ \/ f.skip.size[4] # 2 * f.x.size[3]
                         \/ f.skip.size[5] # 2 * f.x.size[4]

\* a fusion step failed on a height or width that is not a multiple of 2^(N-1)
C4_Witness ==
    /\ ReachedExpanding
    /\ self.training
    /\ ~SpatialDivisible(Pow2(NStages - 1))
    /\ pc = "error"
    /\ out.err = "cat"
    /\ Len(fusions) = 2

\* C5: in one forward pass of a preset with N stages the skip stack starts
\* empty, receives one push per contracting stage and none from the
\* bottleneck (length N when the bottleneck runs), and is popped once per
\* expanding stage, last in first out: expanding stage i (0-based) fuses with
\* the output of contracting stage N-1-i, the stack is empty when the final
\* convolution runs, and no pop finds the stack empty.
C5_SkipStack ==
    /\ pc = "conv1" => skip_connections = <<>> /\ pushed = <<>>
    /\ out.err # "pop"
    /\ Len(pushed) <= NStages
    /\ \A k \in 1..Len(pushed) : pushed[k].size[2] = self.down_blocks[k]
    /\ pc \in {"bottleneck", "up", "fl", "done"} => Len(pushed) = NStages
    /\ pc = "bottleneck" => Len(skip_connections) = NStages
    /\ skip_connections = SubSeq(pushed, 1, Len(pushed) - Len(fusions))
    /\ \A i \in 1..Len(fusions) : fusions[i].skip = pushed[NStages + 1 - i]
    /\ pc = "up" => Len(fusions) = b_inx
    /\ pc \in {"fl", "done"} =>
          /\ skip_connections = <<>>
          /\ Len(fusions) = NStages

\* the final convolution of a large network ran after five pushes and five pops
C5_Witness ==
    /\ pc = "done"
    /\ NStages = 5
    /\ Len(pushed) = 5
    /\ Len(fusions) = 5
    /\ skip_connections = <<>>

\* C6: for every preset and every expanding stage i, the fused tensor of
\* TransUpBlocks[i] has down_blocks[N-1-i] + up_blocks[i] channels, which is
\* the in_channels BlocksUp[i] was constructed with (bottleneck for i = 0,
\* up_blocks[i-1] otherwise), and the in_channels of TransUpBlocks[i] is the
\* channel count of the 2D tensor fed to it.
C6_FusedChannels ==
    /\ Len(self.up_blocks) = NStages
    /\ \A i \in 1..NStages :
          /\ self.down_blocks[NStages + 1 - i] + self.up_blocks[i]
                = self.BlocksUp[i].bn1.num_features
          /\ self.BlocksUp[i].conv1.in_channels = self.BlocksUp[i].bn1.num_features
          /\ self.BlocksUp[i].bn1.num_features
                = (IF i = 1 THEN self.bottleneck.conv2.out_channels
                   ELSE self.up_blocks[i - 1])
    /\ out.err \notin {"conv.channels", "bn.channels", "transconv.channels"}
    /\ \A i \in 1..Len(fusions) :
          /\ fusions[i].x.size[2] = self.TransUpBlocks[i].transconv.in_channels
          /\ ~IsErr(fusions[i].fused) =>
                /\ fusions[i].fused.size[2]
                      = fusions[i].skip.size[2] + self.up_blocks[i]
                /\ fusions[i].fused.size[2] = self.BlocksUp[i].conv1.in_channels

\* the last expanding stage of a medium network fused 32 + 32 channels
C6_Witness ==
    /\ pc = "fl"
    /\ NStages = 4
    /\ Len(fusions) = 4
    /\ fusions[4].skip.size[2] = 32
    /\ fusions[4].fused.size[2] = 64

\* C7, as stated: for every preset and every odd input depth for which the
\* contracting stages and the bottleneck run without error, the output of
\* the bottleneck has depth 1.
C7_BottleneckDepthOne ==
    (Odd(InDepth) /\ pc = "up" /\ b_inx = 0) => out.size[3] = 1

\* C8, as stated: for every odd input depth D, the slice at index depth // 2
\* of every 3D feature map of the contracting path (each skip tensor and the
\* output of the bottleneck) has its receptive window along the depth axis
\* centred on input slice D // 2.
C8_CentralSliceStaysCentral ==
    Odd(InDepth) =>
        /\ \A k \in 1..Len(pushed) :
              Centre2(pushed[k], pushed[k].size[3] \div 2) = 2 * (InDepth \div 2)
        /\ (pc = "up" /\ b_inx = 0) =>
              Centre2(out, out.size[3] \div 2) = 2 * (InDepth \div 2)

\* C10: in a preset with N stages the N stride-2 blocks (N-1 contracting
\* stages and the bottleneck) halve height and width rounding up and the N
\* up-convolutions double them, so on an input on which the contracting path
\* and the bottleneck complete (in eval mode: D >= 2^(N+1) - 1) every skip
\* concatenation has matching height and width, and forward returns, if and
\* only if H and W are both divisible by 2^N.
C10_DivisibleByTwoToN ==
    /\ \A k \in 1..Len(pushed) :
          /\ k = 1 => pushed[k].size[4] = InHeight /\ pushed[k].size[5] = InWidth
          /\ k > 1 => pushed[k].size[4] = (pushed[k - 1].size[4] + 1) \div 2
          /\ k > 1 => pushed[k].size[5] = (pushed[k - 1].size[5] + 1) \div 2
    /\ (pc = "up" /\ b_inx = 0) =>
          /\ out.size[4] = (pushed[NStages].size[4] + 1) \div 2
          /\ out.size[5] = (pushed[NStages].size[5] + 1) \div 2
    /\ \A i \in 1..Len(fusions) :
          /\ fusions[i].fused.err \in {"", "cat"}
          /\ ~IsErr(fusions[i].fused) =>
                /\ fusions[i].fused.size[3] = 2 * fusions[i].x.size[3]
                /\ fusions[i].fused.size[4] = 2 * fusions[i].x.size[4]
    /\ (Terminal /\ InDepth >= MinDepth(NStages) /\ ~self.training)
          => ReachedExpanding
    /\ (Terminal /\ ReachedExpanding) =>
          ((pc = "done" /\ \A i \in 1..Len(fusions) : ~IsErr(fusions[i].fused))
             <=> SpatialDivisible(Pow2(NStages)))

\* height and width divisible by 2^(N-1) but not by 2^N: a concatenation failed
C10_Witness ==
    /\ ReachedExpanding
    /\ SpatialDivisible(Pow2(NStages - 1))
    /\ ~SpatialDivisible(Pow2(NStages))
    /\ pc = "error"
    /\ out.err = "cat"

\* C9: in ResBlock3D and ResBlock2D the shortcut is the identity exactly when
\* stride = 1 and in_channels = out_channels and a projection otherwise, and
\* for every stride in {1, 2}, channel pair and input size the block accepts,
\* the main path and the shortcut path have the same size, so out += residual
\* never fails.
C9_ShortcutMatches ==
    /\ IsNone(self.downsample)
          <=> (self.conv1.stride = 1
               /\ self.conv1.in_channels = self.conv1.out_channels)
    /\ out.err \in {"", "conv.kernel", "bn.batch"}
    /\ residual.err = ""
    /\ pc = "block.downsample" =>
          out.size[2] = self.conv1.out_channels /\ residual = x
    /\ pc \in {"block.add", "done"} =>
          /\ IsNone(self.downsample) => residual = x
          /\ ~IsNone(self.downsample) => residual.size[2] = self.conv1.out_channels
          /\ out.size = residual.size

\* a 2D block of stride 2 added its 1x1 projection to its 3x3 main path
C9_Witness ==
    /\ pc = "done"
    /\ Len(x.size) = 4
    /\ self.conv1.stride = 2
    /\ self.downsample.conv.kernel_size = 1
    /\ x.size[3] = 5 /\ x.size[4] = 4

====
